---- MODULE Spec2Model ----
(***************************************************************************)
(* Model of apex/contrib/csrc/xentropy/interface.cpp: the binding layer of *)
(* the fused softmax cross-entropy loss.  The two entry points             *)
(* softmax_xentropy_forward and softmax_xentropy_backward run their        *)
(* CHECK_INPUT assertions one after the other and then hand their          *)
(* arguments to the CUDA kernels, which interface.cpp only declares.       *)
(***************************************************************************)
EXTENDS Integers, Sequences, FiniteSets, TLC

VARIABLES pc, call, evaluated, kcalls, kres, outcome, prev

vars == <<pc, call, evaluated, kcalls, kres, outcome, prev>>

(***************************************************************************)
(* Bounds of the model.                                                    *)
(***************************************************************************)
\* concurrent callers of the extension module
NumThreads == 2
\* C, the number of classes of a logits row
NumClasses == 2
\* N, the number of rows of a batch
NumRows == 1
\* the smoothing factor s is SmoothDen-ths: smoothing / SmoothDen in [0, 1]
SmoothDen == 2

Threads == 1 .. NumThreads
\* the caller of the sequential specifications
SeqThreads == {1}
\* values a logit takes
LogitVals == {-1, 2}
Smoothings == 0 .. SmoothDen

(***************************************************************************)
(* Tensors: what the binding reads of an at::Tensor (its placement and its *)
(* layout), plus the buffer it lives in and its contents, which the        *)
(* binding hands on untouched.  data is the contiguous row-major contents. *)
(***************************************************************************)
Flags == BOOLEAN \X BOOLEAN
GoodFlags == {<<TRUE, TRUE>>}

TensorSet(flags, dtypes, bufs, datas) ==
    {[is_cuda |-> f[1], is_contiguous |-> f[2], dtype |-> d, buf |-> b, data |-> x] :
        f \in flags, d \in dtypes, b \in bufs, x \in datas}

Good(x) == x.is_cuda /\ x.is_contiguous

Const(n, v) == [i \in 1 .. n |-> v]

\* all logits tensors' contents of shape NumRows x NumClasses
LogitData == [1 .. NumRows * NumClasses -> LogitVals]
\* labels in range: every entry in [0, C)
LabelData == [1 .. NumRows -> 0 .. NumClasses - 1]
\* labels whose last entry is C, one past the last class
OutOfRangeLabels == [i \in 1 .. NumRows |-> IF i = NumRows THEN NumClasses ELSE 0]

InRange(labels) == \A i \in 1 .. Len(labels.data) : labels.data[i] \in 0 .. NumClasses - 1

(***************************************************************************)
(* The C++ interface (interface.cpp lines 24-26).  AT_ASSERTM(cond, msg)   *)
(* throws a c10::Error carrying msg when cond is false; the specification  *)
(* calls this error InvalidArgument.  A check is the record of one         *)
(* evaluated assertion: the argument it names (#x), the buffer it read,    *)
(* whether the asserted condition held, and the message it throws with.    *)
(***************************************************************************)
InvalidArgument == "c10::Error"

AT_ASSERTM(cond, msg) == [ok |-> cond, msg |-> msg]

\* whether an evaluated assertion leaves the function by throwing
Throws_never(chk) == FALSE

Throws(chk) == ~chk.ok

CHECK_CUDA(x, name) ==
    LET a == AT_ASSERTM(x.is_cuda, name \o " must be a CUDA tensor")
    IN  [arg |-> name, prop |-> "is_cuda", buf |-> x.buf, ok |-> a.ok, msg |-> a.msg]

CHECK_CONTIGUOUS_skipped(x, name) ==
    LET a == AT_ASSERTM(TRUE, name \o " must be contiguous")
    IN  [arg |-> name, prop |-> "is_contiguous", buf |-> x.buf, ok |-> a.ok, msg |-> a.msg]

CHECK_CONTIGUOUS(x, name) ==
    LET a == AT_ASSERTM(x.is_contiguous, name \o " must be contiguous")
    IN  [arg |-> name, prop |-> "is_contiguous", buf |-> x.buf, ok |-> a.ok, msg |-> a.msg]

CHECK_INPUT_reversed(x, name) == <<CHECK_CONTIGUOUS(x, name), CHECK_CUDA(x, name)>>

\* CHECK_CUDA(x); CHECK_CONTIGUOUS(x)
CHECK_INPUT(x, name) == <<CHECK_CUDA(x, name), CHECK_CONTIGUOUS(x, name)>>

(***************************************************************************)
(* softmax_xentropy_forward (lines 28-37): the assertions it runs, in      *)
(* program order, and the arguments of its call of softmax_xentropy_cuda.  *)
(***************************************************************************)
ForwardChecks_smoothing(c) ==
    CHECK_INPUT(c.input, "input") \o CHECK_INPUT(c.labels, "labels")
    \o <<[arg |-> "smoothing", prop |-> "positive", buf |-> c.input.buf,
          ok |-> c.smoothing > 0, msg |-> "smoothing must be positive"]>>

ForwardChecks(c) == CHECK_INPUT(c.input, "input") \o CHECK_INPUT(c.labels, "labels")

ForwardKernelArgs_nosmoothing(c) == <<c.input, c.labels, 0, c.half_to_float>>

ForwardKernelArgs(c) == <<c.input, c.labels, c.smoothing, c.half_to_float>>

(***************************************************************************)
(* softmax_xentropy_backward (lines 39-50).  It asserts on grad_loss,      *)
(* max_log_sum_exp and labels; logits is handed on unchecked.              *)
(***************************************************************************)
BackwardChecks(c) ==
    CHECK_INPUT(c.grad_loss, "grad_loss")
    \o CHECK_INPUT(c.max_log_sum_exp, "max_log_sum_exp")
    \o CHECK_INPUT(c.labels, "labels")

BackwardKernelArgs_swapped(c) ==
    <<c.max_log_sum_exp, c.logits, c.grad_loss, c.labels, c.smoothing>>

\* a binding that keeps the statistic of the last successful forward call
BackwardKernelArgs_cached(c) ==
    <<c.grad_loss, c.logits,
      IF prev.op = "forward" /\ Len(prev.outcome.value) = 2
      THEN prev.outcome.value[2] ELSE c.max_log_sum_exp,
      c.labels, c.smoothing>>

BackwardKernelArgs(c) ==
    <<c.grad_loss, c.logits, c.max_log_sum_exp, c.labels, c.smoothing>>

\* a binding that asserts on one shared slot instead of on its own arguments
Checks_shared(c) ==
    IF call[1].op = "forward" THEN ForwardChecks(call[1])
    ELSE IF call[1].op = "backward" THEN BackwardChecks(call[1])
    ELSE IF c.op = "forward" THEN ForwardChecks(c) ELSE BackwardChecks(c)

Checks(c) == IF c.op = "forward" THEN ForwardChecks(c) ELSE BackwardChecks(c)

(***************************************************************************)
(* The CUDA kernels.  interface.cpp declares them (lines 9-20) and holds   *)
(* no body; they are modelled from the specification's contract.  The      *)
(* log-sum-exp of a row is not computable over the integers, so a value    *)
(* that depends on it is kept as the affine form <<a, b>> standing for     *)
(* (a * LSE_i + b) / (SmoothDen * NumClasses), exact in LSE_i.  A tensor   *)
(* of such values holds a and b of row i at positions 2i-1 and 2i.         *)
(***************************************************************************)
Scale == SmoothDen * NumClasses

\* logits[i, c], 1 <= i <= N and 0 <= c < C, of the row-major contents
Logit(x, i, c) == x.data[(i - 1) * NumClasses + c + 1]

RECURSIVE SumLogits(_, _, _)
SumLogits(x, i, c) == IF c = 0 THEN 0 ELSE SumLogits(x, i, c - 1) + Logit(x, i, c - 1)

\* loss_i = (1 - s) * CE_i + s * mean_i, times Scale, given logits[i, labels[i]] = xl
LossRow(x, i, xl, s) ==
    LET CE   == <<1, -xl>>
        CSUM == <<NumClasses, -SumLogits(x, i, NumClasses)>>
    IN  <<(SmoothDen - s) * NumClasses * CE[1] + s * CSUM[1],
          (SmoothDen - s) * NumClasses * CE[2] + s * CSUM[2]>>

\* the saved statistic LSE_i + off / Scale of every row
LseData(off) == [k \in 1 .. 2 * NumRows |-> IF k % 2 = 1 THEN Scale ELSE off]

\* A label outside [0, C) makes the kernel read outside the row: the value
\* read is arbitrary (g[i]).
LossData(x, labels, s, g) ==
    [k \in 1 .. 2 * NumRows |->
        LET i  == (k + 1) \div 2
            l  == labels.data[i]
            xl == IF l \in 0 .. NumClasses - 1 THEN Logit(x, i, l) ELSE g[i]
        IN  LossRow(x, i, xl, s)[2 - (k % 2)]]

\* the results softmax_xentropy_cuda may return: <<losses, max_log_sum_exp>>
softmax_xentropy_cuda(a) ==
    LET dt == IF a[4] THEN "float" ELSE a[1].dtype
    IN  {<<[is_cuda |-> TRUE, is_contiguous |-> TRUE, dtype |-> dt, buf |-> a[1].buf,
            data |-> LossData(a[1], a[2], a[3], g)],
           [is_cuda |-> TRUE, is_contiguous |-> TRUE, dtype |-> dt, buf |-> a[1].buf,
            data |-> LseData(0)]>> : g \in [1 .. NumRows -> LogitVals]}

\* the results softmax_xentropy_backward_cuda may return: a gradient of the
\* logits' shape, whose values the model does not compute
softmax_xentropy_backward_cuda(a) ==
    {<<[is_cuda |-> TRUE, is_contiguous |-> TRUE, dtype |-> a[2].dtype, buf |-> a[2].buf,
        data |-> Const(NumRows * NumClasses, v)]>> : v \in {0, 1}}

(***************************************************************************)
(* State.  For every caller t: pc[t] is its position in the entry point,   *)
(* call[t] the arguments of the call it is in, evaluated[t] the assertions *)
(* evaluated so far, kcalls[t] the kernel invocations made, kres[t] what   *)
(* the kernel returned and outcome[t] how the call ended.  prev observes   *)
(* the last call a sequential caller completed; the binding keeps no such  *)
(* state.                                                                  *)
(***************************************************************************)
NoCall == [op |-> "none"]

NoOutcome == [kind |-> "none", error |-> "", msg |-> "", value |-> <<>>]

NoPrev == [op |-> "none", call |-> NoCall, outcome |-> NoOutcome, kcalls |-> <<>>]

Init ==
    /\ pc = [t \in Threads |-> "idle"]
    /\ call = [t \in Threads |-> NoCall]
    /\ evaluated = [t \in Threads |-> <<>>]
    /\ kcalls = [t \in Threads |-> <<>>]
    /\ kres = [t \in Threads |-> <<>>]
    /\ outcome = [t \in Threads |-> NoOutcome]
    /\ prev = NoPrev

ForwardCalls(I, L, S, H) ==
    {[op |-> "forward", input |-> i, labels |-> l, smoothing |-> s, half_to_float |-> h] :
        i \in I, l \in L, s \in S, h \in H}

BackwardCalls(G, X, M, L, S) ==
    {[op |-> "backward", grad_loss |-> g, logits |-> x, max_log_sum_exp |-> m,
      labels |-> l, smoothing |-> s] : g \in G, x \in X, m \in M, l \in L, s \in S}

\* m.def("forward", &softmax_xentropy_forward, ...): a caller enters forward
ForwardCall(t, c) ==
    /\ pc[t] = "idle"
    /\ c.op = "forward"
    /\ pc' = [pc EXCEPT ![t] = "check"]
    /\ call' = [call EXCEPT ![t] = c]
    /\ UNCHANGED <<evaluated, kcalls, kres, outcome, prev>>

\* m.def("backward", &softmax_xentropy_backward, ...): a caller enters backward
BackwardCall(t, c) ==
    /\ pc[t] = "idle"
    /\ c.op = "backward"
    /\ pc' = [pc EXCEPT ![t] = "check"]
    /\ call' = [call EXCEPT ![t] = c]
    /\ UNCHANGED <<evaluated, kcalls, kres, outcome, prev>>

\* the next assertion of the entry point, in program order
NextCheck(t) == Checks(call[t])[Len(evaluated[t]) + 1]

\* an assertion holds: control goes on to the next statement
CheckPass(t) ==
    /\ pc[t] = "check"
    /\ ~Throws(NextCheck(t))
    /\ evaluated' = [evaluated EXCEPT ![t] = Append(@, NextCheck(t))]
    /\ pc' = [pc EXCEPT ![t] =
                IF Len(evaluated[t]) + 1 = Len(Checks(call[t])) THEN "kernel" ELSE "check"]
    /\ UNCHANGED <<call, kcalls, kres, outcome, prev>>

\* an assertion fails: AT_ASSERTM throws and the call ends
CheckFail(t) ==
    /\ pc[t] = "check"
    /\ Throws(NextCheck(t))
    /\ evaluated' = [evaluated EXCEPT ![t] = Append(@, NextCheck(t))]
    /\ outcome' = [outcome EXCEPT ![t] =
                [kind |-> "error", error |-> InvalidArgument, msg |-> NextCheck(t).msg,
                 value |-> <<>>]]
    /\ pc' = [pc EXCEPT ![t] = "done"]
    /\ UNCHANGED <<call, kcalls, kres, prev>>

\* line 36: softmax_xentropy_cuda(input, labels, smoothing, half_to_float)
InvokeForward(t) ==
    /\ pc[t] = "kernel"
    /\ call[t].op = "forward"
    /\ \E r \in softmax_xentropy_cuda(ForwardKernelArgs(call[t])) :
          kres' = [kres EXCEPT ![t] = r]
    /\ kcalls' = [kcalls EXCEPT ![t] =
                Append(@, [fn |-> "softmax_xentropy_cuda", args |-> ForwardKernelArgs(call[t])])]
    /\ pc' = [pc EXCEPT ![t] = "ret"]
    /\ UNCHANGED <<call, evaluated, outcome, prev>>

\* line 49: softmax_xentropy_backward_cuda(grad_loss, logits, max_log_sum_exp, labels, smoothing)
InvokeBackward(t) ==
    /\ pc[t] = "kernel"
    /\ call[t].op = "backward"
    /\ \E r \in softmax_xentropy_backward_cuda(BackwardKernelArgs(call[t])) :
          kres' = [kres EXCEPT ![t] = r]
    /\ kcalls' = [kcalls EXCEPT ![t] =
                Append(@, [fn |-> "softmax_xentropy_backward_cuda",
                           args |-> BackwardKernelArgs(call[t])])]
    /\ pc' = [pc EXCEPT ![t] = "ret"]
    /\ UNCHANGED <<call, evaluated, outcome, prev>>

\* the return statement: the kernel's result goes to the caller
Return(t) ==
    /\ pc[t] = "ret"
    /\ outcome' = [outcome EXCEPT ![t] =
                [kind |-> "value", error |-> "", msg |-> "", value |-> kres[t]]]
    /\ pc' = [pc EXCEPT ![t] = "done"]
    /\ UNCHANGED <<call, evaluated, kcalls, kres, prev>>

Cleared(t) ==
    /\ pc' = [pc EXCEPT ![t] = "idle"]
    /\ call' = [call EXCEPT ![t] = NoCall]
    /\ evaluated' = [evaluated EXCEPT ![t] = <<>>]
    /\ kcalls' = [kcalls EXCEPT ![t] = <<>>]
    /\ kres' = [kres EXCEPT ![t] = <<>>]
    /\ outcome' = [outcome EXCEPT ![t] = NoOutcome]

\* the caller is done with the call and may call again
Release(t) ==
    /\ pc[t] = "done"
    /\ Cleared(t)
    /\ UNCHANGED prev

\* the same, with the completed call observed in prev
ReleaseObserved(t) ==
    /\ pc[t] = "done"
    /\ Cleared(t)
    /\ prev' = [op |-> call[t].op, call |-> call[t], outcome |-> outcome[t],
                kcalls |-> kcalls[t]]

(***************************************************************************)
(* Spec: one caller, every placement and layout of every tensor argument,  *)
(* labels in range and out of range, every smoothing factor.               *)
(***************************************************************************)
SomeLogits == {Const(NumRows * NumClasses, 2)}
SomeLabels == {Const(NumRows, 0)}
SomeGrads == {Const(NumRows, 1)}

MainForward ==
    ForwardCalls(TensorSet(Flags, {"float"}, SeqThreads, SomeLogits),
                 TensorSet(Flags, {"long"}, SeqThreads, SomeLabels \cup {OutOfRangeLabels}),
                 Smoothings, BOOLEAN)

MainBackward ==
    BackwardCalls(TensorSet(Flags, {"float"}, SeqThreads, SomeGrads),
                  TensorSet(Flags, {"float"}, SeqThreads, SomeLogits),
                  TensorSet(Flags, {"float"}, SeqThreads, {LseData(0), LseData(1)}),
                  TensorSet(Flags, {"long"}, SeqThreads, SomeLabels \cup {OutOfRangeLabels}),
                  Smoothings)

Next ==
    \E t \in SeqThreads :
        \/ \E c \in MainForward : ForwardCall(t, c)
        \/ \E c \in MainBackward : BackwardCall(t, c)
        \/ CheckPass(t)
        \/ CheckFail(t)
        \/ InvokeForward(t)
        \/ InvokeBackward(t)
        \/ Return(t)
        \/ Release(t)

Spec == Init /\ [][Next]_vars

(***************************************************************************)
(* SpecSeq: one caller making call after call, the previous call observed. *)
(***************************************************************************)
SeqForward ==
    ForwardCalls(TensorSet(Flags, {"float"}, SeqThreads, SomeLogits),
                 TensorSet(GoodFlags, {"long"}, SeqThreads, SomeLabels),
                 Smoothings, BOOLEAN)

SeqBackward ==
    BackwardCalls(TensorSet(GoodFlags, {"float"}, SeqThreads, SomeGrads),
                  TensorSet(GoodFlags, {"float"}, SeqThreads, SomeLogits),
                  TensorSet(Flags, {"float"}, SeqThreads, {LseData(0), LseData(1)}),
                  TensorSet(GoodFlags, {"long"}, SeqThreads, SomeLabels),
                  Smoothings)

NextSeq ==
    \E t \in SeqThreads :
        \/ \E c \in SeqForward : ForwardCall(t, c)
        \/ \E c \in SeqBackward : BackwardCall(t, c)
        \/ CheckPass(t)
        \/ CheckFail(t)
        \/ InvokeForward(t)
        \/ InvokeBackward(t)
        \/ Return(t)
        \/ ReleaseObserved(t)

SpecSeq == Init /\ [][NextSeq]_vars

(***************************************************************************)
(* SpecConc: NumThreads callers, each on its own batch (its own buffers),  *)
(* their steps interleaved in every order.                                 *)
(***************************************************************************)
ConcForward(t) ==
    ForwardCalls(TensorSet(Flags, {"float"}, {t}, SomeLogits),
                 TensorSet(GoodFlags, {"long"}, {t}, SomeLabels),
                 {SmoothDen}, {FALSE})

ConcBackward(t) ==
    BackwardCalls(TensorSet(Flags, {"float"}, {t}, SomeGrads),
                  TensorSet(GoodFlags, {"float"}, {t}, SomeLogits),
                  TensorSet(GoodFlags, {"float"}, {t}, {LseData(0)}),
                  TensorSet(GoodFlags, {"long"}, {t}, SomeLabels),
                  {SmoothDen})

NextConc ==
    \E t \in Threads :
        \/ \E c \in ConcForward(t) : ForwardCall(t, c)
        \/ \E c \in ConcBackward(t) : BackwardCall(t, c)
        \/ CheckPass(t)
        \/ CheckFail(t)
        \/ InvokeForward(t)
        \/ InvokeBackward(t)
        \/ Return(t)
        \/ Release(t)

SpecConc == Init /\ [][NextConc]_vars

(***************************************************************************)
(* SpecKernel: forward on every logits batch, every in-range labelling,    *)
(* every smoothing factor, both input precisions and both values of        *)
(* half_to_float; all tensors on the device and contiguous.                *)
(***************************************************************************)
KernelForward ==
    ForwardCalls(TensorSet(GoodFlags, {"half", "float"}, SeqThreads, LogitData),
                 TensorSet(GoodFlags, {"long"}, SeqThreads, LabelData),
                 Smoothings, BOOLEAN)

NextKernel ==
    \E t \in SeqThreads :
        \/ \E c \in KernelForward : ForwardCall(t, c)
        \/ CheckPass(t)
        \/ InvokeForward(t)
        \/ Return(t)
        \/ Release(t)

SpecKernel == Init /\ [][NextKernel]_vars

(***************************************************************************)
(* Properties.                                                             *)
(***************************************************************************)
Done(t) == pc[t] = "done"

Failed(t) == Done(t) /\ outcome[t].kind = "error"

Returned(t) == Done(t) /\ outcome[t].kind = "value"

\* the tensor argument of call c that the C++ source names `name`
Arg(c, name) ==
    CASE name = "input" -> c.input
      [] name = "labels" -> c.labels
      [] name = "grad_loss" -> c.grad_loss
      [] name = "logits" -> c.logits
      [] name = "max_log_sum_exp" -> c.max_log_sum_exp

\* the order in which the tensors of a call are said to be checked
CheckedArgs(c) ==
    IF c.op = "forward" THEN <<"input", "labels">>
    ELSE <<"grad_loss", "max_log_sum_exp", "labels">>

\* the message of the first violated precondition in that order, placement
\* before layout for each tensor; "" when none is violated
RECURSIVE FirstViolation(_, _)
FirstViolation(c, names) ==
    IF names = <<>> THEN ""
    ELSE IF ~Arg(c, Head(names)).is_cuda THEN Head(names) \o " must be a CUDA tensor"
    ELSE IF ~Arg(c, Head(names)).is_contiguous THEN Head(names) \o " must be contiguous"
    ELSE FirstViolation(c, Tail(names))

\* C1: a finished forward call has failed with InvalidArgument if logits or
\* labels is not on the device or not contiguous, and has raised no error
\* if both are on the device and contiguous.
C1_ForwardPreconditions ==
    \A t \in Threads :
        (Done(t) /\ call[t].op = "forward") =>
            IF Good(call[t].input) /\ Good(call[t].labels)
            THEN outcome[t].kind = "value"
            ELSE outcome[t].kind = "error" /\ outcome[t].error = InvalidArgument

C1_Witness ==
    \E t \in Threads :
        /\ Failed(t)
        /\ call[t].op = "forward"
        /\ Good(call[t].input)
        /\ call[t].labels.is_cuda
        /\ ~call[t].labels.is_contiguous

\* C2: a finished backward call in which any of upstream gradient, logits,
\* saved LSE or labels is not on the device or not contiguous has failed
\* with InvalidArgument and has not invoked the backward kernel.
C2_BackwardChecksEveryInput ==
    \A t \in Threads :
        ( /\ Done(t)
          /\ call[t].op = "backward"
          /\ ~( /\ Good(call[t].grad_loss)
                /\ Good(call[t].logits)
                /\ Good(call[t].max_log_sum_exp)
                /\ Good(call[t].labels)) ) =>
            /\ outcome[t].kind = "error"
            /\ outcome[t].error = InvalidArgument
            /\ kcalls[t] = <<>>

\* C3: a call that ends in an error has invoked no kernel and returns no
\* tensor; the kernel is invoked at most once per call, only after every
\* check of the call was evaluated and held, and no check is evaluated
\* after it.
C3_ChecksBeforeKernel ==
    \A t \in Threads :
        /\ Len(kcalls[t]) <= 1
        /\ Failed(t) => (kcalls[t] = <<>> /\ kres[t] = <<>> /\ outcome[t].value = <<>>)
        /\ pc[t] = "check" => kcalls[t] = <<>>
        /\ kcalls[t] # <<>> =>
              /\ Len(evaluated[t]) = 2 * Len(CheckedArgs(call[t]))
              /\ \A i \in 1 .. Len(evaluated[t]) : evaluated[t][i].ok
        /\ kres[t] # <<>> => kcalls[t] # <<>>

C3_Witness ==
    \E t \in Threads :
        /\ Failed(t)
        /\ Len(evaluated[t]) >= 3
        /\ kcalls[t] = <<>>

\* C4: a call whose checks all pass invokes its kernel exactly once, with
\* its own arguments unchanged and in the declared order, and returns what
\* the kernel returned, unchanged.
C4_PassThrough ==
    \A t \in Threads :
        (Done(t) /\ FirstViolation(call[t], CheckedArgs(call[t])) = "") =>
            /\ outcome[t].kind = "value"
            /\ Len(kcalls[t]) = 1
            /\ outcome[t].value = kres[t]
            /\ IF call[t].op = "forward"
               THEN /\ kcalls[t][1].fn = "softmax_xentropy_cuda"
                    /\ Len(kcalls[t][1].args) = 4
                    /\ kcalls[t][1].args[1] = call[t].input
                    /\ kcalls[t][1].args[2] = call[t].labels
                    /\ kcalls[t][1].args[3] = call[t].smoothing
                    /\ kcalls[t][1].args[4] = call[t].half_to_float
                    /\ kres[t] \in softmax_xentropy_cuda(
                          <<call[t].input, call[t].labels, call[t].smoothing,
                            call[t].half_to_float>>)
               ELSE /\ kcalls[t][1].fn = "softmax_xentropy_backward_cuda"
                    /\ Len(kcalls[t][1].args) = 5
                    /\ kcalls[t][1].args[1] = call[t].grad_loss
                    /\ kcalls[t][1].args[2] = call[t].logits
                    /\ kcalls[t][1].args[3] = call[t].max_log_sum_exp
                    /\ kcalls[t][1].args[4] = call[t].labels
                    /\ kcalls[t][1].args[5] = call[t].smoothing
                    /\ kres[t] \in softmax_xentropy_backward_cuda(
                          <<call[t].grad_loss, call[t].logits, call[t].max_log_sum_exp,
                            call[t].labels, call[t].smoothing>>)

C4_Witness ==
    \E t \in Threads :
        /\ Returned(t)
        /\ call[t].op = "backward"
        /\ call[t].smoothing = SmoothDen
        /\ outcome[t].value = kres[t]
        /\ Len(kcalls[t]) = 1

\* C5: a finished call with a label outside [0, C) has ended in a failure
\* and has not reached the kernel.
C5_OutOfRangeLabelFails ==
    \A t \in Threads :
        (Done(t) /\ ~InRange(call[t].labels)) =>
            /\ outcome[t].kind = "error"
            /\ kcalls[t] = <<>>

\* the tensor arguments of a call, the smoothing factor and the
\* half_to_float flag left out
TensorArgs(c) ==
    IF c.op = "forward" THEN <<c.input, c.labels>>
    ELSE <<c.grad_loss, c.logits, c.max_log_sum_exp, c.labels>>

AllGood(c) == \A i \in 1 .. Len(TensorArgs(c)) : Good(TensorArgs(c)[i])

\* C6: a finished call whose tensors are all on the device and contiguous
\* has reached the kernel and returned, whatever its smoothing factor
\* (0, 1 or in between) and flag; and two calls of the same entry point on
\* the same tensors end the same way (error or not, and with the same
\* message) whatever their smoothing factors and flags.
C6_SmoothingNeverAnError ==
    \A t \in Threads :
        Done(t) =>
            /\ AllGood(call[t]) => (outcome[t].kind = "value" /\ Len(kcalls[t]) = 1)
            /\ (prev.op = call[t].op /\ TensorArgs(prev.call) = TensorArgs(call[t])) =>
                  /\ prev.outcome.kind = outcome[t].kind
                  /\ prev.outcome.msg = outcome[t].msg

C6_Witness ==
    \E t \in Threads :
        /\ Returned(t)
        /\ call[t].op = "forward"
        /\ prev.op = "forward"
        /\ TensorArgs(prev.call) = TensorArgs(call[t])
        /\ prev.call.smoothing = 0
        /\ call[t].smoothing = SmoothDen
        /\ prev.call.half_to_float # call[t].half_to_float
        /\ prev.outcome.kind = "value"

\* C7: a call with the arguments of the call completed before it ends as
\* that call did (same error, same arguments handed to the kernel); and the
\* saved LSE handed to the backward kernel is the one the caller passed,
\* also right after a forward call that returned another one.
C7_Stateless ==
    \A t \in Threads :
        /\ (Done(t) /\ prev.call = call[t]) =>
              /\ prev.outcome.kind = outcome[t].kind
              /\ prev.outcome.msg = outcome[t].msg
              /\ prev.kcalls = kcalls[t]
        /\ (call[t].op = "backward" /\ kcalls[t] # <<>>) =>
              kcalls[t][1].args[3] = call[t].max_log_sum_exp

C7_Witness ==
    \E t \in Threads :
        /\ Returned(t)
        /\ call[t].op = "backward"
        /\ prev.op = "forward"
        /\ prev.outcome.kind = "value"
        /\ prev.outcome.value[2] # call[t].max_log_sum_exp
        /\ kcalls[t][1].args[3] = call[t].max_log_sum_exp

\* the buffers a caller has touched: those its assertions read, those of
\* the tensors handed to its kernel and those of the tensors returned
Touched(t) ==
    {evaluated[t][i].buf : i \in 1 .. Len(evaluated[t])}
    \cup UNION {{k.args[i].buf : i \in 1 .. Len(TensorArgs(call[t]))} :
                  k \in {kcalls[t][j] : j \in 1 .. Len(kcalls[t])}}
    \cup {kres[t][i].buf : i \in 1 .. Len(kres[t])}

\* C8: with callers on distinct batches interleaved in any order, every
\* finished call has the outcome it has alone (the error of its own first
\* violated precondition, or its own arguments at the kernel and the
\* kernel's result for them), and a caller touches no buffer of another.
C8_NoInteraction ==
    \A t \in Threads :
        /\ Touched(t) \subseteq {t}
        /\ Done(t) =>
              /\ outcome[t].msg = FirstViolation(call[t], CheckedArgs(call[t]))
              /\ outcome[t].kind = IF outcome[t].msg = "" THEN "value" ELSE "error"
              /\ Returned(t) =>
                    /\ TensorArgs(call[t]) =
                          [i \in 1 .. Len(TensorArgs(call[t])) |-> kcalls[t][1].args[i]]
                    /\ outcome[t].value = kres[t]

C8_Witness ==
    \E t, u \in Threads :
        /\ t # u
        /\ Returned(t)
        /\ call[t].op = "forward"
        /\ pc[u] = "check"
        /\ call[u].op = "backward"
        /\ Len(evaluated[u]) = 1
        /\ ~call[u].grad_loss.is_contiguous

\* C9: the loss forward returns for row i is (1 - s) * CE_i + s * mean_i,
\* which is LSE_i - ((1 - s) * logits[i, labels[i]] + s * mean_c logits[i, c]);
\* for s = 0 it is CE_i = LSE_i - logits[i, labels[i]], for s = 1 it is
\* LSE_i less the mean logit, whatever the label; and the saved statistic
\* of row i is LSE_i.  (Values are affine forms <<a, b>> in LSE_i, over
\* Scale.)
C9_ForwardLoss ==
    \A t \in Threads :
        (Returned(t) /\ call[t].op = "forward") =>
            \A i \in 1 .. NumRows :
                LET x    == call[t].input
                    s    == call[t].smoothing
                    xl   == Logit(x, i, call[t].labels.data[i])
                    sum  == SumLogits(x, i, NumClasses)
                    loss == <<outcome[t].value[1].data[2 * i - 1], outcome[t].value[1].data[2 * i]>>
                    lse  == <<outcome[t].value[2].data[2 * i - 1], outcome[t].value[2].data[2 * i]>>
                IN  /\ loss = <<Scale, -((SmoothDen - s) * NumClasses * xl + s * sum)>>
                    /\ s = 0 => loss = <<Scale, -Scale * xl>>
                    /\ s = SmoothDen => loss = <<Scale, -SmoothDen * sum>>
                    /\ lse = <<Scale, 0>>

C9_Witness ==
    \E t \in Threads :
        /\ Returned(t)
        /\ call[t].op = "forward"
        /\ call[t].smoothing = SmoothDen
        /\ Logit(call[t].input, 1, 0) # Logit(call[t].input, 1, 1)
        /\ call[t].labels.data[1] = 1
        /\ outcome[t].value[1].data[2] = -SmoothDen * SumLogits(call[t].input, 1, NumClasses)

\* the checks of a call in the claimed order: for each tensor of
\* CheckedArgs, placement first, layout second
ClaimedOrder(c) ==
    [k \in 1 .. 2 * Len(CheckedArgs(c)) |->
        <<CheckedArgs(c)[(k + 1) \div 2], IF k % 2 = 1 THEN "is_cuda" ELSE "is_contiguous">>]

\* C10: the checks of a call are evaluated in the order input, labels
\* (forward) and grad_loss, max_log_sum_exp, labels (backward), placement
\* before layout; evaluation stops at the first check that fails, and the
\* error carries that check's message, naming its tensor.
C10_CheckOrder ==
    \A t \in Threads :
        /\ \A k \in 1 .. Len(evaluated[t]) :
              /\ k <= Len(ClaimedOrder(call[t]))
              /\ <<evaluated[t][k].arg, evaluated[t][k].prop>> = ClaimedOrder(call[t])[k]
              /\ k < Len(evaluated[t]) => evaluated[t][k].ok
        /\ Done(t) =>
              outcome[t].msg = FirstViolation(call[t], CheckedArgs(call[t]))
        /\ Failed(t) =>
              /\ evaluated[t] # <<>>
              /\ ~evaluated[t][Len(evaluated[t])].ok
              /\ outcome[t].msg = evaluated[t][Len(evaluated[t])].msg
              /\ outcome[t].msg # ""

C10_Witness ==
    \E t \in Threads :
        /\ Failed(t)
        /\ call[t].op = "backward"
        /\ call[t].grad_loss.is_cuda
        /\ ~call[t].grad_loss.is_contiguous
        /\ ~call[t].max_log_sum_exp.is_cuda
        /\ ~Good(call[t].labels)
        /\ outcome[t].msg = "grad_loss must be contiguous"
        /\ Len(evaluated[t]) = 2

====
